---------------------------- MODULE Spec2Model ----------------------------
(***************************************************************************)
(* FastConvolver (src/src/fast_convolver.rs): a streaming convolution      *)
(* engine with a time-domain and a partitioned frequency-domain strategy.  *)
(*                                                                         *)
(* The model is one client driving one engine: it calls new once and then  *)
(* process, flush and reset.  A panic ends the run; the fields keep the    *)
(* values they had when the panic was raised.                              *)
(*                                                                         *)
(* Samples are small integers, which f32 represents exactly.  Complex      *)
(* values are pairs <<re, im>> of integers.  The block sizes are 1, 2 and  *)
(* 4, whose roots of unity are 1, -i, -1 and i, so the discrete Fourier    *)
(* transforms of rustfft (unnormalised in both directions) are computed    *)
(* exactly.                                                                *)
(***************************************************************************)
EXTENDS Integers, Sequences, FiniteSets, TLC

\* ---- bounds ----
MaxIR == 3          \* longest impulse response
MaxInput == 3       \* longest input block of one process call
MaxOut == 4         \* longest output buffer handed to process or flush
MaxSample == 1      \* samples are 0..MaxSample
MaxCalls == 3       \* calls made after new
MaxFed == 3         \* samples fed to process over the whole run

Samples == 0..MaxSample
BlockSizes == {1, 2, 4}

RECURSIVE SeqsUpTo(_, _)
SeqsUpTo(S, n) ==
    IF n = 0 THEN {<<>>}
    ELSE LET shorter == SeqsUpTo(S, n - 1)
         IN  shorter \cup {Append(s, v) : s \in {t \in shorter : Len(t) = n - 1}, v \in S}

Min(a, b) == IF a < b THEN a ELSE b

\* vec![0.0; n]
Zeros(n) == [i \in 1..n |-> 0]

\* ---- ConvolutionMode (fast_convolver.rs 15-19) ----
TimeDomain == [kind |-> "TimeDomain", block_size |-> 0]
FrequencyDomain(b) == [kind |-> "FrequencyDomain", block_size |-> b]
NoMode == [kind |-> "none", block_size |-> 0]

\* ---- num_complex::Complex<f32> ----
CZero == <<0, 0>>
CAdd(a, b) == <<a[1] + b[1], a[2] + b[2]>>
CMul(a, b) == <<a[1] * b[1] - a[2] * b[2], a[1] * b[2] + a[2] * b[1]>>

\* e^(-2 pi i m / n) for n in {1, 2, 4}; the inverse plan uses the conjugate.
Twiddle(n, m, inverse) ==
    LET q == (m * (4 \div n)) % 4
        w == CASE q = 0 -> <<1, 0>>
               [] q = 1 -> <<0, -1>>
               [] q = 2 -> <<-1, 0>>
               [] q = 3 -> <<0, 1>>
    IN  IF inverse THEN <<w[1], -w[2]>> ELSE w

RECURSIVE DftSum(_, _, _, _, _)
DftSum(x, n, k, t, inverse) ==
    IF t = 0 THEN CZero
    ELSE CAdd(DftSum(x, n, k, t - 1, inverse),
              CMul(x[t], Twiddle(n, (t - 1) * (k - 1), inverse)))

\* Fft::process of a plan of length n: X[k] = sum_t x[t] w^(tk), not normalised.
FftProcess(x, n, inverse) == [k \in 1..n |-> DftSum(x, n, k, n, inverse)]

\* chunks(block_size): the c-th chunk (c from 0) of s
NumChunks(s, b) == (Len(s) + b - 1) \div b
Chunk(s, b, c) == SubSeq(s, c * b + 1, Min((c + 1) * b, Len(s)))

\* vec![Complex 0; block_size] overwritten by zip(chunk)
PadComplex(chunk, b) ==
    [j \in 1..b |-> IF j <= Len(chunk) THEN <<chunk[j], 0>> ELSE CZero]

partition_and_transform_ir(ir, b) ==
    [c \in 1..NumChunks(ir, b) |-> FftProcess(PadComplex(Chunk(ir, b, c - 1), b), b, FALSE)]


\* ---- the engine (struct FastConvolver, fast_convolver.rs 5-13) ----
VARIABLES
    status,            \* "none" before new, "live", or "panicked"
    impulse_response,
    mode,
    buffer,            \* the carryover store
    ir_blocks,
    overlap_buffer,
    block_size,
    trace              \* the calls made so far, each with its arguments and result

\* ---- the ring buffer (struct RingBuffer, ring_buffer.rs 1-5) ----
VARIABLES
    rb_status,         \* "none" before RingBuffer::new, then "live"
    rb_buffer,         \* RingBuffer.buffer
    head,              \* the write index
    tail,              \* the read index
    rb_call,           \* the last call: its name, argument and return value
    rb_pending,        \* the values pushed and not yet popped, oldest first
    rb_fifo,           \* TRUE while push and pop were the only calls that wrote and
                       \* the number of outstanding values stayed within 0..capacity-1
    rb_pushed          \* the values pushed since new, while push was the only call
                       \* that wrote and at most capacity + 1 values were pushed

\* ---- the comb filter (struct CombFilter, comb_filter.rs 1-9) ----
VARIABLES
    cf_status,         \* "none" before CombFilter::new, "live", or "panicked"
    filter_type,
    gain,
    max_delay_secs,
    sample_rate_hz,
    max_delay_samples,
    num_channels,
    cf_call            \* the last call; for process, its input and output frames

fcVars == <<status, impulse_response, mode, buffer, ir_blocks, overlap_buffer,
            block_size, trace>>
rbVars == <<rb_status, rb_buffer, head, tail, rb_call, rb_pending, rb_fifo, rb_pushed>>
cfVars == <<cf_status, filter_type, gain, max_delay_secs, sample_rate_hz,
            max_delay_samples, num_channels, cf_call>>

vars == <<fcVars, rbVars, cfVars>>

NoCall == [op |-> "none"]

\* no ring buffer has been constructed
RbNone ==
    /\ rb_status = "none"
    /\ rb_buffer = <<>>
    /\ head = 0
    /\ tail = 0
    /\ rb_call = NoCall
    /\ rb_pending = <<>>
    /\ rb_fifo = TRUE
    /\ rb_pushed = [only |-> TRUE, values |-> <<>>]

\* no comb filter has been constructed
CfNone ==
    /\ cf_status = "none"
    /\ filter_type = "none"
    /\ gain = 0
    /\ max_delay_secs = 0
    /\ sample_rate_hz = 0
    /\ max_delay_samples = 0
    /\ num_channels = 0
    /\ cf_call = NoCall

\* no convolution engine has been constructed
FcNone ==
    /\ status = "none"
    /\ impulse_response = <<>>
    /\ mode = [kind |-> "none", block_size |-> 0]
    /\ buffer = <<>>
    /\ ir_blocks = <<>>
    /\ overlap_buffer = <<>>
    /\ block_size = 0
    /\ trace = <<>>

Self == [impulse_response |-> impulse_response, mode |-> mode, buffer |-> buffer,
         ir_blocks |-> ir_blocks, overlap_buffer |-> overlap_buffer,
         block_size |-> block_size]

NoEngine == [impulse_response |-> <<>>, mode |-> NoMode, buffer |-> <<>>,
             ir_blocks |-> <<>>, overlap_buffer |-> <<>>, block_size |-> 0]

\* The result of a call: whether it returned, the caller's output buffer
\* (zero before the call), how many of its samples were written, and the engine.
Result(ok, out, written, eng) == [ok |-> ok, out |-> out, written |-> written, eng |-> eng]

\* FastConvolver::new.  Every mode but FrequencyDomain reaches the panic! arm.
new_panics(ir, m) == m.kind # "FrequencyDomain"

new(ir, m) ==
    [impulse_response |-> ir,
     mode |-> m,
     buffer |-> Zeros(m.block_size),
     ir_blocks |-> partition_and_transform_ir(ir, m.block_size),
     overlap_buffer |-> Zeros(2 * m.block_size),
     block_size |-> m.block_size]

\* FastConvolver::reset: Vec::clear leaves the vector empty.
reset(e) == [e EXCEPT !.buffer = <<>>]

\* a flush that empties the store it has copied
flush_drain(e, outlen, checks) ==
    LET L == Len(e.impulse_response)
        reach == Min(outlen, Len(e.buffer))
        n == IF L = 0 THEN (IF checks THEN 0 ELSE reach) ELSE Min(L - 1, reach)
    IN  Result(L > 0 /\ L - 1 <= reach,
               [i \in 1..outlen |-> IF i <= n THEN e.buffer[i] ELSE 0],
               n, [e EXCEPT !.buffer = <<>>])

\* FastConvolver::flush.  The loop copies buffer[i] to output[i] for i in
\* 0..L-1 and panics at the first index outside either slice.  For L = 0 the
\* bound L-1 underflows: a panic with overflow checks, usize::MAX without.
flush(e, outlen, checks) ==
    LET L == Len(e.impulse_response)
        reach == Min(outlen, Len(e.buffer))
        n == IF L = 0 THEN (IF checks THEN 0 ELSE reach) ELSE Min(L - 1, reach)
    IN  Result(L > 0 /\ L - 1 <= reach,
               [i \in 1..outlen |-> IF i <= n THEN e.buffer[i] ELSE 0],
               n, e)

\* ---- time-domain strategy (fast_convolver.rs 71-98) ----
RECURSIVE ConvSum(_, _, _, _)
\* sum over j in 0..jmax of input[i-j]*h[j], skipping the taps with i >= N + j
ConvSum(input, h, i, jmax) ==
    IF jmax < 0 THEN 0
    ELSE ConvSum(input, h, i, jmax - 1)
         + (IF i >= Len(input) + jmax THEN 0 ELSE input[i - jmax + 1] * h[jmax + 1])

\* full_output after the convolution loop; the inner loop breaks at j = i
FullOutput(input, h) ==
    [i \in 1..(Len(input) + Len(h) - 1) |-> ConvSum(input, h, i - 1, Min(i - 1, Len(h) - 1))]

time_domain_process(e, input, outlen) ==
    LET h == e.impulse_response
        L == Len(h)
        N == Len(input)
        untouched == Result(FALSE, Zeros(outlen), 0, e)
    IN  IF L = 0 THEN untouched                 \* N + L - 1 or L - 1 underflows
        ELSE IF N = 0 /\ L >= 2 THEN untouched  \* input[i - j] with j > i
        ELSE IF Len(e.buffer) < L - 1 THEN untouched   \* self.buffer[i]
        ELSE LET conv == FullOutput(input, h)
                 full == [i \in 1..(N + L - 1) |->
                            IF i <= L - 1 THEN e.buffer[i] + conv[i] ELSE conv[i]]
             IN  IF outlen < N
                 THEN Result(FALSE, [i \in 1..outlen |-> full[i]], outlen, e)
                 ELSE Result(TRUE,
                             [i \in 1..outlen |-> IF i <= N THEN full[i] ELSE 0],
                             N,
                             [e EXCEPT !.buffer =
                                [i \in 1..Len(e.buffer) |->
                                    IF i <= L - 1 THEN full[N + i] ELSE e.buffer[i]]])

\* ---- frequency-domain strategy (fast_convolver.rs 100-129) ----
\* ir_blocks.get(i).unwrap_or(zeros)
IrBlock(e, i) ==
    IF i + 1 <= Len(e.ir_blocks) THEN e.ir_blocks[i + 1] ELSE [j \in 1..e.block_size |-> CZero]

\* the body of the chunk loop for chunk i: the real parts of the inverse
\* transform of the pointwise product
OutputBlock(e, input, i) ==
    LET b == e.block_size
        input_block == FftProcess(PadComplex(Chunk(input, b, i), b), b, FALSE)
        ir == IrBlock(e, i)
        product == [j \in 1..b |-> CMul(input_block[j], ir[j])]
    IN  FftProcess(product, b, TRUE)

\* overlap_buffer[(i * block_size + j) % buffer_len] += complex.re
AddBlock(overlap, block, i, b) ==
    [p \in 1..Len(overlap) |->
        LET j == (p - 1 - i * b) % Len(overlap)
        IN  IF j < b THEN overlap[p] + block[j + 1][1] ELSE overlap[p]]

RECURSIVE ChunkLoop(_, _, _, _)
\* the overlap buffer after chunks 0..n-1
ChunkLoop(e, input, overlap, n) ==
    IF n = 0 THEN overlap
    ELSE AddBlock(ChunkLoop(e, input, overlap, n - 1),
                  OutputBlock(e, input, n - 1), n - 1, e.block_size)

\* a block process that keeps the samples past the block in the carryover store
frequency_domain_process_carry(e, input, outlen) ==
    LET N == Len(input)
        cleared == [p \in 1..Len(e.overlap_buffer) |-> 0]
        overlap == ChunkLoop(e, input, cleared, NumChunks(input, e.block_size))
        kept == [i \in 1..Len(e.buffer) |->
                    IF N + i <= Len(overlap) THEN overlap[N + i] ELSE 0]
        after == [e EXCEPT !.overlap_buffer = overlap, !.buffer = kept]
    IN  IF N > Len(overlap) \/ outlen # N
        THEN Result(FALSE, Zeros(outlen), 0, after)
        ELSE Result(TRUE, SubSeq(overlap, 1, N), N, after)

\* a block process with a constant offset on every sample it writes
frequency_domain_process_offset(e, input, outlen) ==
    LET N == Len(input)
        cleared == [p \in 1..Len(e.overlap_buffer) |-> 0]
        overlap == ChunkLoop(e, input, cleared, NumChunks(input, e.block_size))
        after == [e EXCEPT !.overlap_buffer = overlap]
    IN  IF N > Len(overlap) \/ outlen # N
        THEN Result(FALSE, Zeros(outlen), 0, after)
        ELSE Result(TRUE, [i \in 1..N |-> overlap[i] + 1], N, after)

frequency_domain_process(e, input, outlen) ==
    LET N == Len(input)
        cleared == [p \in 1..Len(e.overlap_buffer) |-> 0]
        overlap == ChunkLoop(e, input, cleared, NumChunks(input, e.block_size))
        after == [e EXCEPT !.overlap_buffer = overlap]
    IN  IF N > Len(overlap) \/ outlen # N       \* the slice, then copy_from_slice
        THEN Result(FALSE, Zeros(outlen), 0, after)
        ELSE Result(TRUE, SubSeq(overlap, 1, N), N, after)

\* FastConvolver::process
process(e, input, outlen) ==
    IF e.mode.kind = "TimeDomain"
    THEN time_domain_process(e, input, outlen)
    ELSE frequency_domain_process(e, input, outlen)

\* ---- the client ----
Call(op, input, m, outlen, r) ==
    [op |-> op, input |-> input, mode |-> m, outlen |-> outlen,
     out |-> r.out, written |-> r.written, ok |-> r.ok]

ImpulseResponses == SeqsUpTo(Samples, MaxIR)
Inputs == SeqsUpTo(Samples, MaxInput)

Modes == {TimeDomain} \cup {FrequencyDomain(b) : b \in BlockSizes}

SetEngine(e) ==
    /\ impulse_response' = e.impulse_response
    /\ mode' = e.mode
    /\ buffer' = e.buffer
    /\ ir_blocks' = e.ir_blocks
    /\ overlap_buffer' = e.overlap_buffer
    /\ block_size' = e.block_size

Init ==
    /\ status = "none"
    /\ impulse_response = NoEngine.impulse_response
    /\ mode = NoEngine.mode
    /\ buffer = NoEngine.buffer
    /\ ir_blocks = NoEngine.ir_blocks
    /\ overlap_buffer = NoEngine.overlap_buffer
    /\ block_size = NoEngine.block_size
    /\ trace = <<>>
    /\ RbNone
    /\ CfNone

New ==
    /\ status = "none"
    /\ \E ir \in ImpulseResponses, m \in Modes :
         /\ status' = IF new_panics(ir, m) THEN "panicked" ELSE "live"
         /\ SetEngine(IF new_panics(ir, m) THEN NoEngine ELSE new(ir, m))
         /\ trace' = <<Call("new", ir, m, 0, Result(~new_panics(ir, m), <<>>, 0, NoEngine))>>
    /\ UNCHANGED <<rbVars, cfVars>>

CanCall == status = "live" /\ Len(trace) <= MaxCalls

RECURSIVE Fed(_)
\* the number of samples handed to process in the calls of t
Fed(t) ==
    IF t = <<>> THEN 0
    ELSE Fed(SubSeq(t, 1, Len(t) - 1))
         + (IF t[Len(t)].op = "process" THEN Len(t[Len(t)].input) ELSE 0)

\* the caller's output buffer is as long as the n samples the call is to
\* write, one shorter or one longer
OutLens(n) == {k \in 0..MaxOut : n - 1 <= k /\ k <= n + 1}

Process ==
    /\ CanCall
    /\ \E input \in {x \in Inputs : Fed(trace) + Len(x) <= MaxFed} :
       \E outlen \in OutLens(Len(input)) :
         LET r == process(Self, input, outlen)
         IN  /\ status' = IF r.ok THEN "live" ELSE "panicked"
             /\ SetEngine(r.eng)
             /\ trace' = Append(trace, Call("process", input, NoMode, outlen, r))
    /\ UNCHANGED <<rbVars, cfVars>>

Flush ==
    /\ CanCall
    /\ \E outlen \in OutLens(Len(impulse_response) - 1), overflow_checks \in BOOLEAN :
         LET r == flush(Self, outlen, overflow_checks)
         IN  /\ status' = IF r.ok THEN "live" ELSE "panicked"
             /\ SetEngine(r.eng)
             /\ trace' = Append(trace, Call("flush", <<>>, NoMode, outlen, r))
    /\ UNCHANGED <<rbVars, cfVars>>

Reset ==
    /\ CanCall
    /\ status' = "live"
    /\ SetEngine(reset(Self))
    /\ trace' = Append(trace, Call("reset", <<>>, NoMode, 0, Result(TRUE, <<>>, 0, Self)))
    /\ UNCHANGED <<rbVars, cfVars>>

Next == New \/ Process \/ Flush \/ Reset

Spec == Init /\ [][Next]_vars


\* ---- reading the trace ----
Requested == trace[1]                       \* the call to new
Last == trace[Len(trace)]
IsProcess(c) == c.op = "process"
IsFlush(c) == c.op = "flush"
TimeDomainRequested == trace # <<>> /\ Requested.mode = TimeDomain
FrequencyDomainRequested == trace # <<>> /\ Requested.mode.kind = "FrequencyDomain"

RECURSIVE Inputs_(_, _, _)
\* the inputs of calls from..to of t, concatenated
Inputs_(t, from, to) ==
    IF to < from THEN <<>> ELSE Inputs_(t, from, to - 1) \o t[to].input

RECURSIVE Outputs_(_, _, _)
\* the output buffers of calls from..to of t, concatenated
Outputs_(t, from, to) ==
    IF to < from THEN <<>> ELSE Outputs_(t, from, to - 1) \o t[to].out

\* calls from..to of t are process calls with equally long input and output
AllMatchedProcess(t, from, to) ==
    \A k \in from..to : IsProcess(t[k]) /\ t[k].outlen = Len(t[k].input)

\* ---- the reference: linear convolution by its definition ----
RECURSIVE ConvTerms(_, _, _, _)
\* sum over j in 0..j_ of x[i-j]*h[j] with 0 <= i-j < Len(x)   (i, j from 0)
ConvTerms(x, h, i, j_) ==
    IF j_ < 0 THEN 0
    ELSE ConvTerms(x, h, i, j_ - 1)
         + (IF 0 <= i - j_ /\ i - j_ < Len(x) THEN x[i - j_ + 1] * h[j_ + 1] ELSE 0)

LinearConvolution(x, h) ==
    [i \in 1..(Len(x) + Len(h) - 1) |-> ConvTerms(x, h, i - 1, Len(h) - 1)]

\* ---- the reference: the same calls made on a freshly constructed engine ----
RECURSIVE Replay(_, _, _)
\* the observable outcome <<ok, out, written>> of each call of t from position k
\* on, made on engine e; nothing is called after a panic
Replay(e, t, k) ==
    IF k > Len(t) THEN <<>>
    ELSE LET c == t[k]
             r == CASE c.op = "process" -> process(e, c.input, c.outlen)
                    [] c.op = "flush" -> flush(e, c.outlen, TRUE)
                    [] c.op = "reset" -> Result(TRUE, <<>>, 0, reset(e))
         IN  <<<<r.ok, r.out, r.written>>>> \o (IF r.ok THEN Replay(r.eng, t, k + 1) ELSE <<>>)

\* what the trace recorded for the calls from position k on
Observed(t, k) == [i \in 1..(Len(t) - k + 1) |-> <<t[k + i - 1].ok, t[k + i - 1].out, t[k + i - 1].written>>]

\* C1: in time-domain mode, new(h, TimeDomain) with L >= 1, one process call on
\* all of x (N >= 1) and a flush on an (L-1)-sample buffer yield, concatenated,
\* the full linear convolution of x with h.
C1_TimeDomainFullConvolution ==
    (TimeDomainRequested /\ Len(Requested.input) >= 1) =>
        /\ Requested.ok
        /\ (/\ Len(trace) = 3
            /\ AllMatchedProcess(trace, 2, 2)
            /\ Len(trace[2].input) >= 1
            /\ IsFlush(trace[3])
            /\ trace[3].outlen = Len(Requested.input) - 1)
           => /\ trace[2].ok
              /\ trace[3].ok
              /\ trace[2].out \o trace[3].out
                   = LinearConvolution(trace[2].input, Requested.input)

\* C2: in time-domain mode every partition of the input into consecutive blocks,
\* each fed to process and followed by one flush, yields the same concatenated
\* output as the whole input in a single process call followed by flush.
C2_TimeDomainBlockInvariance ==
    (TimeDomainRequested /\ Len(Requested.input) >= 1) =>
        /\ Requested.ok
        /\ (/\ Len(trace) >= 3
            /\ AllMatchedProcess(trace, 2, Len(trace) - 1)
            /\ IsFlush(Last)
            /\ Last.outlen = Len(Requested.input) - 1)
           => LET x == Inputs_(trace, 2, Len(trace) - 1)
                  whole == <<[op |-> "process", input |-> x, outlen |-> Len(x)],
                             [op |-> "flush", input |-> <<>>, outlen |-> Last.outlen]>>
                  single == Replay(new(Requested.input, Requested.mode), whole, 1)
              IN  /\ \A k \in 2..Len(trace) : trace[k].ok
                  /\ Len(single) = 2
                  /\ single[2][1]
                  /\ Outputs_(trace, 2, Len(trace)) = single[1][2] \o single[2][2]

\* C3: in frequency-domain mode a single process call on an input of length N
\* writes output[i] equal to sample i of the linear convolution of the input
\* with the impulse response, for every impulse length L.
C3_FrequencyDomainIsConvolution ==
    (/\ FrequencyDomainRequested
     /\ Len(Requested.input) >= 1
     /\ Len(trace) = 2
     /\ AllMatchedProcess(trace, 2, 2)
     /\ Last.ok)
    => Last.out = SubSeq(LinearConvolution(Last.input, Requested.input), 1, Len(Last.input))

\* C4: in frequency-domain mode, splitting an input into several consecutive
\* process calls yields the same concatenated output as submitting the whole
\* input in one process call.
C4_FrequencyDomainBlockInvariance ==
    (/\ FrequencyDomainRequested
     /\ Len(Requested.input) >= 1
     /\ Len(trace) >= 3
     /\ AllMatchedProcess(trace, 2, Len(trace))
     /\ \A k \in 2..Len(trace) : trace[k].ok)
    => LET x == Inputs_(trace, 2, Len(trace))
           single == frequency_domain_process(
                         new(Requested.input, Requested.mode), x, Len(x))
       IN  single.ok => Outputs_(trace, 2, Len(trace)) = single.out

\* C5: construction with new(h, TimeDomain) succeeds for every non-empty
\* impulse response h, and the engine is then in time-domain mode.
C5_TimeDomainConstructible ==
    (TimeDomainRequested /\ Len(Requested.input) >= 1) =>
        /\ Requested.ok
        /\ status # "none"
        /\ mode = TimeDomain
        /\ impulse_response = Requested.input

\* C6: after any sequence of process calls, reset makes every subsequent
\* sequence of process and flush calls produce exactly the outputs, and the same
\* success or failure, that a freshly constructed engine with the same impulse
\* response and mode would produce.
C6_ResetRestoresFresh ==
    \A k \in 2..Len(trace) :
        (/\ Requested.ok
         /\ Len(Requested.input) >= 1
         /\ trace[k].op = "reset"
         /\ \A i \in 2..(k - 1) : IsProcess(trace[i])
         /\ \A i \in (k + 1)..Len(trace) : IsProcess(trace[i]) \/ IsFlush(trace[i]))
        => Observed(trace, k + 1)
             = Replay(new(Requested.input, Requested.mode), trace, k + 1)

\* C7: in every reachable state of the engine the Carryover Store has length
\* exactly L-1, and it is all zeros right after construction and right after
\* reset.
C7_CarryoverLength ==
    (status = "live" /\ Len(impulse_response) >= 1) =>
        /\ Len(buffer) = Len(impulse_response) - 1
        /\ (Last.op \in {"new", "reset"} => \A i \in 1..Len(buffer) : buffer[i] = 0)

\* C8: in either mode and after any sequence of process calls, flush called with
\* an output buffer of length L-1 succeeds and writes exactly L-1 samples, so all
\* process outputs and the flush output together have length input_length + L - 1.
C8_TailCompleteness ==
    (/\ Len(trace) >= 2
     /\ Requested.ok
     /\ Len(Requested.input) >= 1
     /\ AllMatchedProcess(trace, 2, Len(trace) - 1)
     /\ IsFlush(Last)
     /\ Last.outlen = Len(Requested.input) - 1)
    => /\ Last.ok
       /\ Last.written = Len(Requested.input) - 1
       /\ Len(Outputs_(trace, 2, Len(trace)))
            = Len(Inputs_(trace, 2, Len(trace))) + Len(Requested.input) - 1

\* the step is a call of process
ProcessStep ==
    /\ status = "live"
    /\ trace' = Append(trace, trace'[Len(trace')])
    /\ IsProcess(trace'[Len(trace')])

\* C9: process called with len(input) # len(output) reports an error, and the
\* failed call leaves the Carryover Store and the Overlap Accumulator exactly as
\* they were before the call.
C9_MismatchRejectedUnchanged ==
    [][(ProcessStep /\ trace'[Len(trace')].outlen # Len(trace'[Len(trace')].input))
       => /\ ~trace'[Len(trace')].ok
          /\ status' = "panicked"
          /\ buffer' = buffer
          /\ overlap_buffer' = overlap_buffer]_vars

\* C10: process succeeds for every block length N >= 0 whenever
\* len(input) = len(output) = N; an empty block leaves the Carryover Store
\* unchanged.
C10_EveryBlockLengthAccepted ==
    [][(ProcessStep /\ trace'[Len(trace')].outlen = Len(trace'[Len(trace')].input))
       => /\ trace'[Len(trace')].ok
          /\ status' = "live"
          /\ (trace'[Len(trace')].input = <<>> => buffer' = buffer)]_vars

\* C11: flush requires len(output) = L-1 exactly: a call with an output buffer
\* shorter or longer than L-1 is reported as an error and writes nothing.
C11_FlushLengthChecked ==
    (/\ Len(trace) >= 2
     /\ IsFlush(Last)
     /\ Len(Requested.input) >= 1
     /\ Last.outlen # Len(Requested.input) - 1)
    => /\ ~Last.ok
       /\ Last.written = 0

\* C12: construction with an empty impulse response fails in every mode, so no
\* engine with L = 0 exists and flush never evaluates L-1 for L = 0.
C12_EmptyImpulseRejected ==
    (trace # <<>> /\ Requested.input = <<>>) =>
        /\ ~Requested.ok
        /\ status = "panicked"
        /\ \A k \in 2..Len(trace) : ~IsFlush(trace[k])

\* x is zero everywhere but at position k (from 1), where it is 1
UnitImpulseAt(x, k) ==
    \A i \in 1..Len(x) : x[i] = (IF i = k THEN 1 ELSE 0)

\* C13: frequency-domain latency is 0 samples: for a unit impulse at index k and
\* an impulse response whose first tap is non-zero, a single process call
\* produces its first non-zero output sample at index k.
C13_ZeroLatency ==
    (/\ FrequencyDomainRequested
     /\ Len(Requested.input) >= 1
     /\ Len(trace) = 2
     /\ AllMatchedProcess(trace, 2, 2)
     /\ Last.ok
     /\ Requested.input[1] # 0)
    => \A k \in 1..Len(Last.input) :
          UnitImpulseAt(Last.input, k)
          => /\ Last.out[k] # 0
             /\ \A i \in 1..(k - 1) : Last.out[i] = 0

Bits == {0, 1}

\* ---- runs with correctly sized buffers ----
\* new, then process calls on non-empty blocks with len(output) = len(input)
\* and flush calls with len(output) = L - 1.
LinMaxIR == 2         \* longest impulse response
LinMaxCalls == 2      \* calls made after new
LinMaxFed == 2        \* samples fed to process over the whole run

LinImpulseResponses == SeqsUpTo(Bits, LinMaxIR)
LinInputs == SeqsUpTo(Bits, LinMaxFed) \ {<<>>}

LinNew ==
    /\ status = "none"
    /\ \E ir \in LinImpulseResponses, m \in Modes :
         /\ status' = IF new_panics(ir, m) THEN "panicked" ELSE "live"
         /\ SetEngine(IF new_panics(ir, m) THEN NoEngine ELSE new(ir, m))
         /\ trace' = <<Call("new", ir, m, 0, Result(~new_panics(ir, m), <<>>, 0, NoEngine))>>
    /\ UNCHANGED <<rbVars, cfVars>>

LinProcess ==
    /\ status = "live"
    /\ Len(trace) <= LinMaxCalls
    /\ \E input \in {x \in LinInputs : Fed(trace) + Len(x) <= LinMaxFed} :
         LET r == process(Self, input, Len(input))
         IN  /\ status' = IF r.ok THEN "live" ELSE "panicked"
             /\ SetEngine(r.eng)
             /\ trace' = Append(trace, Call("process", input, NoMode, Len(input), r))
    /\ UNCHANGED <<rbVars, cfVars>>

LinFlush ==
    /\ status = "live"
    /\ Len(trace) <= LinMaxCalls
    /\ Len(impulse_response) >= 1
    /\ \E overflow_checks \in BOOLEAN :
         LET outlen == Len(impulse_response) - 1
             r == flush(Self, outlen, overflow_checks)
         IN  /\ status' = IF r.ok THEN "live" ELSE "panicked"
             /\ SetEngine(r.eng)
             /\ trace' = Append(trace, Call("flush", <<>>, NoMode, outlen, r))
    /\ UNCHANGED <<rbVars, cfVars>>

LinNext == LinNew \/ LinProcess \/ LinFlush

SpecLin == Init /\ [][LinNext]_vars

\* ---- C14: linearity ----
ScalarPairs == {<<-2, 1>>}

\* the samples of stream that belong to call k of t, the stream being cut into
\* the same blocks as the inputs of t
BlockOf(stream, t, k) ==
    LET before == Fed(SubSeq(t, 1, k - 1))
    IN  SubSeq(stream, before + 1, before + Len(t[k].input))

\* the calls of t with the input x of each process call replaced by a*x + b*y,
\* y being the block of stream at the same place
Combined(t, stream, a, b) ==
    [k \in 1..Len(t) |->
        IF IsProcess(t[k])
        THEN [t[k] EXCEPT !.input =
                [i \in 1..Len(t[k].input) |->
                    a * t[k].input[i] + b * BlockOf(stream, t, k)[i]]]
        ELSE t[k]]

\* a*u + b*v, sample by sample
LinearCombination(a, u, b, v) == [i \in 1..Len(u) |-> a * u[i] + b * v[i]]

\* C14: linearity.  For every run of process and flush calls on an engine, every
\* second input stream cut into the same blocks and all scalars a and b, the run
\* on a*x1 + b*x2 succeeds or fails call by call like the run on x1 and writes
\* a times the outputs for x1 plus b times the outputs for x2.
C14_Linearity ==
    (/\ trace # <<>>
     /\ Requested.ok
     /\ Len(Requested.input) >= 1
     /\ \A k \in 2..Len(trace) : IsProcess(trace[k]) \/ IsFlush(trace[k]))
    => \A stream \in {x \in SeqsUpTo(Bits, Fed(trace)) : Len(x) = Fed(trace)} :
          LET fresh == new(Requested.input, Requested.mode)
              y1 == Observed(trace, 2)
              y2 == Replay(fresh, Combined(trace, stream, 0, 1), 2)
          IN  \A ab \in ScalarPairs :
                 Replay(fresh, Combined(trace, stream, ab[1], ab[2]), 2)
                   = [k \in 1..Len(y1) |->
                        <<y1[k][1] /\ y2[k][1],
                          LinearCombination(ab[1], y1[k][2], ab[2], y2[k][2]),
                          y1[k][3]>>]

\* a run in which process wrote a non-zero sample and a flush then succeeded
C14_Witness ==
    /\ Len(trace) = 3
    /\ Requested.ok
    /\ IsProcess(trace[2])
    /\ trace[2].ok
    /\ \E i \in 1..Len(trace[2].out) : trace[2].out[i] # 0
    /\ IsFlush(trace[3])
    /\ trace[3].ok

\* ---- RingBuffer (ring_buffer.rs) ----
MaxCapacity == 3
MaxValue == 1
MaxIndex == 7

\* the capacities a buffer is constructed with: at least one cell
Capacities == 1..MaxCapacity
\* the element type's values; 0 is T::default()
Values == 0..MaxValue
Default == 0
\* the arguments of set_read_index, set_write_index and get
Indices == 0..MaxIndex

RbSelf == [buffer |-> rb_buffer, head |-> head, tail |-> tail]

\* RingBuffer::capacity
capacity(rb) == Len(rb.buffer)

\* RingBuffer::new
RingBuffer_new(c) == [buffer |-> [i \in 1..c |-> Default], head |-> 0, tail |-> 0]

\* a reset that leaves the read index where it was
RingBuffer_reset_head_only(rb) ==
    [buffer |-> [i \in 1..Len(rb.buffer) |-> Default], head |-> 0, tail |-> rb.tail]

\* RingBuffer::reset
RingBuffer_reset(rb) ==
    [buffer |-> [i \in 1..Len(rb.buffer) |-> Default], head |-> 0, tail |-> 0]

\* RingBuffer::put; cell k of the Vec is element k + 1 of the sequence
put(rb, value) == [rb EXCEPT !.buffer[rb.head + 1] = value]

\* RingBuffer::peek
peek(rb) == rb.buffer[rb.tail + 1]

\* RingBuffer::get
get(rb, offset) == rb.buffer[((rb.tail + offset) % capacity(rb)) + 1]

\* a push that leaves a buffer alone whose write index would reach the read index
push_unless_full(rb, value) ==
    IF (rb.head + 1) % capacity(rb) = rb.tail
    THEN rb
    ELSE [rb EXCEPT !.buffer[rb.head + 1] = value,
                    !.head = (rb.head + 1) % capacity(rb)]

\* RingBuffer::push
push(rb, value) ==
    [rb EXCEPT !.buffer[rb.head + 1] = value,
               !.head = (rb.head + 1) % capacity(rb)]

\* a pop that returns the newest value, the one before the write index
pop_newest(rb) ==
    [value |-> rb.buffer[((rb.head + capacity(rb) - 1) % capacity(rb)) + 1],
     rb |-> [rb EXCEPT !.tail = (rb.tail + 1) % capacity(rb)]]

\* RingBuffer::pop: the value returned and the buffer afterwards
pop(rb) ==
    [value |-> rb.buffer[rb.tail + 1],
     rb |-> [rb EXCEPT !.tail = (rb.tail + 1) % capacity(rb)]]

\* RingBuffer::get_read_index
get_read_index(rb) == rb.tail

\* RingBuffer::set_read_index
set_read_index(rb, index) == [rb EXCEPT !.tail = index % capacity(rb)]

\* RingBuffer::get_write_index
get_write_index(rb) == rb.head

\* RingBuffer::set_write_index
set_write_index(rb, index) == [rb EXCEPT !.head = index % capacity(rb)]

\* RingBuffer::len
len(rb) ==
    IF rb.head >= rb.tail
    THEN rb.head - rb.tail
    ELSE rb.head + capacity(rb) - rb.tail

SetRing(rb) ==
    /\ rb_buffer' = rb.buffer
    /\ head' = rb.head
    /\ tail' = rb.tail

RbCall(op, arg, ret) == [op |-> op, arg |-> arg, ret |-> ret]

\* a call other than push and pop ends the run of pushes and pops
NoPushes == [only |-> FALSE, values |-> <<>>]

LeaveFifo ==
    /\ rb_fifo' = FALSE
    /\ rb_pending' = <<>>
    /\ rb_pushed' = NoPushes

RbNew ==
    /\ rb_status = "none"
    /\ \E c \in Capacities :
         /\ SetRing(RingBuffer_new(c))
         /\ rb_call' = RbCall("new", c, 0)
    /\ rb_status' = "live"
    /\ UNCHANGED <<rb_pending, rb_fifo, rb_pushed>>
    /\ UNCHANGED <<fcVars, cfVars>>

RbPush ==
    /\ rb_status = "live"
    /\ \E value \in Values :
         LET inRange == rb_fifo /\ Len(rb_pending) + 1 <= capacity(RbSelf) - 1
         IN  /\ SetRing(push(RbSelf, value))
             /\ rb_call' = RbCall("push", value, 0)
             /\ rb_fifo' = inRange
             /\ rb_pending' = IF inRange THEN Append(rb_pending, value) ELSE <<>>
             /\ rb_pushed' = IF rb_pushed.only /\ Len(rb_pushed.values) <= capacity(RbSelf)
                              THEN [rb_pushed EXCEPT !.values = Append(@, value)]
                              ELSE NoPushes
    /\ UNCHANGED <<rb_status, fcVars, cfVars>>

RbPop ==
    /\ rb_status = "live"
    /\ LET r == pop(RbSelf)
           inRange == rb_fifo /\ Len(rb_pending) >= 1
       IN  /\ SetRing(r.rb)
           /\ rb_call' = RbCall("pop", 0, r.value)
           /\ rb_fifo' = inRange
           /\ rb_pending' = IF inRange THEN Tail(rb_pending) ELSE <<>>
           /\ rb_pushed' = NoPushes
    /\ UNCHANGED <<rb_status, fcVars, cfVars>>

RbPut ==
    /\ rb_status = "live"
    /\ \E value \in Values :
         /\ SetRing(put(RbSelf, value))
         /\ rb_call' = RbCall("put", value, 0)
    /\ LeaveFifo
    /\ UNCHANGED <<rb_status, fcVars, cfVars>>

RbPeek ==
    /\ rb_status = "live"
    /\ rb_call' = RbCall("peek", 0, peek(RbSelf))
    /\ UNCHANGED <<rb_status, rb_buffer, head, tail, rb_pending, rb_fifo, rb_pushed,
                   fcVars, cfVars>>

RbGet ==
    /\ rb_status = "live"
    /\ \E offset \in Indices : rb_call' = RbCall("get", offset, get(RbSelf, offset))
    /\ UNCHANGED <<rb_status, rb_buffer, head, tail, rb_pending, rb_fifo, rb_pushed,
                   fcVars, cfVars>>

RbSetReadIndex ==
    /\ rb_status = "live"
    /\ \E index \in Indices :
         /\ SetRing(set_read_index(RbSelf, index))
         /\ rb_call' = RbCall("set_read_index", index, 0)
    /\ LeaveFifo
    /\ UNCHANGED <<rb_status, fcVars, cfVars>>

RbSetWriteIndex ==
    /\ rb_status = "live"
    /\ \E index \in Indices :
         /\ SetRing(set_write_index(RbSelf, index))
         /\ rb_call' = RbCall("set_write_index", index, 0)
    /\ LeaveFifo
    /\ UNCHANGED <<rb_status, fcVars, cfVars>>

RbReset ==
    /\ rb_status = "live"
    /\ SetRing(RingBuffer_reset(RbSelf))
    /\ rb_call' = RbCall("reset", 0, 0)
    /\ LeaveFifo
    /\ UNCHANGED <<rb_status, fcVars, cfVars>>

RbNext ==
    \/ RbNew
    \/ RbPush
    \/ RbPop
    \/ RbPut
    \/ RbPeek
    \/ RbGet
    \/ RbSetReadIndex
    \/ RbSetWriteIndex
    \/ RbReset

SpecRing == Init /\ [][RbNext]_vars

\* C15: the ring buffer is first in, first out.  In a run of push and pop calls
\* on a fresh buffer of capacity C during which the number of values pushed and
\* not yet popped stays within 0..C-1, every pop returns the oldest such value
\* and len() is the number of such values, wherever the cursors are in the
\* storage.
C15_Fifo ==
    [][(rb_status' = "live" /\ rb_fifo')
       => /\ len(RbSelf') = Len(rb_pending')
          /\ (rb_call'.op = "pop" => rb_call'.ret = Head(rb_pending))]_vars

\* a pop in such a run, made after the write index wrapped past the end of the
\* storage, with a value still outstanding
C15_Witness ==
    /\ rb_status = "live"
    /\ rb_fifo
    /\ rb_call.op = "pop"
    /\ head < tail
    /\ rb_pending # <<>>

\* C16: the cursors stay inside the storage.  After new and after every push,
\* pop, put, set_read_index(i), set_write_index(i) and reset, the read index and
\* the write index are in 0..capacity-1; set_read_index(i) and
\* set_write_index(i) store i mod capacity; the capacity is the one the buffer
\* was constructed with; reset leaves both indices 0 and every cell the default.
C16_CursorsInRange ==
    [][rb_status' = "live"
       => /\ head' \in 0..(capacity(RbSelf') - 1)
          /\ tail' \in 0..(capacity(RbSelf') - 1)
          /\ rb_call'.op = "new" => capacity(RbSelf') = rb_call'.arg
          /\ rb_status = "live" => capacity(RbSelf') = capacity(RbSelf)
          /\ rb_call'.op = "set_read_index"
               => tail' = rb_call'.arg % capacity(RbSelf) /\ head' = head
          /\ rb_call'.op = "set_write_index"
               => head' = rb_call'.arg % capacity(RbSelf) /\ tail' = tail
          /\ rb_call'.op = "reset"
               => /\ head' = 0
                  /\ tail' = 0
                  /\ \A i \in 1..Len(rb_buffer') : rb_buffer'[i] = Default]_vars

\* a buffer holding a non-default value whose read index was just set from an
\* index at or beyond the capacity, with both cursors away from 0
C16_Witness ==
    /\ rb_status = "live"
    /\ rb_call.op = "set_read_index"
    /\ rb_call.arg >= capacity(RbSelf)
    /\ tail # 0
    /\ head # 0
    /\ \E i \in 1..Len(rb_buffer) : rb_buffer[i] # Default

\* ---- CombFilter (comb_filter.rs) ----
MaxFrames == 3
MaxDelayHalves == 3
MaxRate == 2
MaxGain == 1

\* FilterType
FilterTypes == {"FIR", "IIR"}
\* max_delay_secs, counted in half seconds
DelaySecs == 0..MaxDelayHalves
SecsPerUnit == 2
SampleRates == 1..MaxRate
Gains == (-1)..MaxGain
\* mono and stereo
Channels == {1, 2}
\* the samples of one frame, one per channel; in stereo the two channels carry
\* different samples, so that a sample taken from the wrong channel shows
Frames(n) == {f \in [1..n -> Bits] : n = 1 \/ f[1] # f[2]}
\* the frames passed to one call of process, by number of channels
CfInputs == [n \in Channels |-> SeqsUpTo(Frames(n), MaxFrames)]

\* (max_delay_secs * sample_rate_hz) as usize: truncates, and saturates below 0
as_usize(secs, rate) ==
    IF secs * rate < 0 THEN 0 ELSE (secs * rate) \div SecsPerUnit

CfSelf ==
    [filter_type |-> filter_type, gain |-> gain, max_delay_secs |-> max_delay_secs,
     sample_rate_hz |-> sample_rate_hz, max_delay_samples |-> max_delay_samples,
     num_channels |-> num_channels]

\* CombFilter::new
CombFilter_new(ft, secs, rate, channels) ==
    [filter_type |-> ft, gain |-> 0, max_delay_secs |-> secs,
     sample_rate_hz |-> rate, max_delay_samples |-> as_usize(secs, rate),
     num_channels |-> channels]

\* CombFilter::reset
CombFilter_reset(cf) == [cf EXCEPT !.gain = 0, !.max_delay_secs = 0]

\* CombFilter::set_gain
set_gain(cf, value) == [cf EXCEPT !.gain = value]

\* CombFilter::set_delay
set_delay(cf, value) == [cf EXCEPT !.max_delay_secs = value]

\* CombFilter::set_param
set_param(cf, param, value) ==
    IF param = "Gain" THEN set_gain(cf, value) ELSE set_delay(cf, value)

\* CombFilter::get_param
get_param(cf, param) == IF param = "Gain" THEN cf.gain ELSE cf.max_delay_secs

\* one pass of the loop over i in process: the output frame and the delay line
\* after it; row k of the delay line is delay_line[k - 1]
ProcessFrame(cf, delay_line, frame, feedback) ==
    LET D == cf.max_delay_samples
        out == [c \in 1..cf.num_channels |->
                   frame[c] + cf.gain * delay_line[D][c]]
        first == IF feedback THEN out ELSE [c \in 1..cf.num_channels |-> frame[c]]
    IN  [out |-> out,
         delay_line |-> [k \in 1..D |-> IF k = 1 THEN first ELSE delay_line[k - 1]]]

RECURSIVE ProcessLoop(_, _, _, _, _, _)
ProcessLoop(cf, input, i, delay_line, output, feedback) ==
    IF i > Len(input)
    THEN output
    ELSE LET r == ProcessFrame(cf, delay_line, input[i], feedback)
         IN  ProcessLoop(cf, input, i + 1, r.delay_line, Append(output, r.out), feedback)

\* the delay line process allocates: max_delay_samples rows of zeros
FreshDelayLine(cf) ==
    [k \in 1..cf.max_delay_samples |-> [c \in 1..cf.num_channels |-> 0]]

\* a process that feeds its output back whatever the filter type
CombFilter_process_feedback(cf, input) ==
    IF cf.max_delay_samples = 0 /\ Len(input) >= 1 /\ cf.num_channels >= 1
    THEN [ok |-> FALSE, output |-> <<>>]
    ELSE [ok |-> TRUE,
          output |-> ProcessLoop(cf, input, 1, FreshDelayLine(cf), <<>>, TRUE)]

\* CombFilter::process; with no delay row, max_delay_samples - 1 underflows
CombFilter_process(cf, input) ==
    IF cf.max_delay_samples = 0 /\ Len(input) >= 1 /\ cf.num_channels >= 1
    THEN [ok |-> FALSE, output |-> <<>>]
    ELSE [ok |-> TRUE,
          output |-> ProcessLoop(cf, input, 1, FreshDelayLine(cf), <<>>,
                                 cf.filter_type = "IIR")]

SetComb(cf) ==
    /\ filter_type' = cf.filter_type
    /\ gain' = cf.gain
    /\ max_delay_secs' = cf.max_delay_secs
    /\ sample_rate_hz' = cf.sample_rate_hz
    /\ max_delay_samples' = cf.max_delay_samples
    /\ num_channels' = cf.num_channels

CfCall(op, input, output, ok) ==
    [op |-> op, input |-> input, output |-> output, ok |-> ok]

CfNew ==
    /\ cf_status = "none"
    /\ \E ft \in FilterTypes, secs \in DelaySecs, rate \in SampleRates, channels \in Channels :
         SetComb(CombFilter_new(ft, secs, rate, channels))
    /\ cf_status' = "live"
    /\ cf_call' = CfCall("new", <<>>, <<>>, TRUE)
    /\ UNCHANGED <<fcVars, rbVars>>

CfSetParam ==
    /\ cf_status = "live"
    /\ \/ \E value \in Gains : SetComb(set_param(CfSelf, "Gain", value))
       \/ \E value \in DelaySecs : SetComb(set_param(CfSelf, "Delay", value))
    /\ cf_call' = CfCall("set_param", <<>>, <<>>, TRUE)
    /\ UNCHANGED <<cf_status, fcVars, rbVars>>

CfProcess ==
    /\ cf_status = "live"
    /\ \E input \in CfInputs[num_channels] :
         LET r == CombFilter_process(CfSelf, input)
         IN  /\ cf_status' = IF r.ok THEN "live" ELSE "panicked"
             /\ cf_call' = CfCall("process", input, r.output, r.ok)
    /\ UNCHANGED <<filter_type, gain, max_delay_secs, sample_rate_hz,
                   max_delay_samples, num_channels>>
    /\ UNCHANGED <<fcVars, rbVars>>

CfReset ==
    /\ cf_status = "live"
    /\ SetComb(CombFilter_reset(CfSelf))
    /\ cf_call' = CfCall("reset", <<>>, <<>>, TRUE)
    /\ UNCHANGED <<cf_status, fcVars, rbVars>>

CfNext == CfNew \/ CfSetParam \/ CfProcess \/ CfReset

SpecComb == Init /\ [][CfNext]_vars

\* 1 + g + g^2 + ... + g^m
RECURSIVE GeometricSum(_, _)
GeometricSum(g, m) == IF m = 0 THEN 1 ELSE 1 + g * GeometricSum(g, m - 1)

\* every sample of every frame is c
ConstantInput(x, c) == \A t \in 1..Len(x) : \A ch \in 1..Len(x[t]) : x[t][ch] = c

\* C17: a process call on a filter with delay D = max_delay_samples >= 1 and
\* gain g completes and writes, for every channel, y[t] = x[t] + g * d[t - D]
\* with d[t - D] = 0 for t < D, where d is the input x for FIR and the output y
\* for IIR.  So a constant input c gives c, then c + g*c from sample D on in
\* FIR, and c, c + g*c, c + g*(c + g*c), ... over successive spans of D samples
\* in IIR.
C17_CombRecurrence ==
    (cf_call.op = "process" /\ max_delay_samples >= 1)
    => LET D == max_delay_samples
           x == cf_call.input
           y == cf_call.output
       IN  /\ cf_call.ok
           /\ Len(y) = Len(x)
           /\ \A t \in 1..Len(x) : \A ch \in 1..num_channels :
                 y[t][ch] = x[t][ch] + gain * (IF t <= D THEN 0
                                               ELSE IF filter_type = "FIR"
                                                    THEN x[t - D][ch]
                                                    ELSE y[t - D][ch])
           /\ \A c \in Bits : ConstantInput(x, c) =>
                 \A t \in 1..Len(x) : \A ch \in 1..num_channels :
                    y[t][ch] = IF filter_type = "FIR"
                               THEN (IF t <= D THEN c ELSE c + gain * c)
                               ELSE c * GeometricSum(gain, (t - 1) \div D)

\* a feedback filter with a gain other than 0 and 1 has processed a constant
\* non-zero input reaching into the third span of D samples
C17_Witness ==
    /\ cf_call.op = "process"
    /\ cf_call.ok
    /\ filter_type = "IIR"
    /\ max_delay_samples >= 1
    /\ gain \notin {0, 1}
    /\ ConstantInput(cf_call.input, 1)
    /\ Len(cf_call.input) > 2 * max_delay_samples

\* ---- the carryover store ----
\* C18: in time-domain mode, after process calls that delivered x[0..T) in
\* blocks of any sizes N >= 1, entry k of the Carryover Store (0 <= k <= L-2) is
\* the convolution sample at absolute index T+k that has not been emitted yet:
\* the sum of x[T+k-j]*h[j] over the j with 0 <= T+k-j < T.
C18_TimeDomainCarryover ==
    (TimeDomainRequested /\ Len(Requested.input) >= 1) =>
        /\ Requested.ok
        /\ (/\ status = "live"
            /\ Len(trace) >= 2
            /\ AllMatchedProcess(trace, 2, Len(trace))
            /\ \A c \in 2..Len(trace) : Len(trace[c].input) >= 1)
           => LET h == Requested.input
                  x == Inputs_(trace, 2, Len(trace))
                  T == Len(x)
              IN  /\ Len(buffer) = Len(h) - 1
                  /\ \A k \in 0..(Len(h) - 2) :
                        buffer[k + 1] = LinearConvolution(x, h)[T + k + 1]

\* C19: flush changes no field of the engine.  A flush step leaves the Carryover
\* Store, the Overlap Accumulator, the impulse response, the partition and the
\* mode as they were; when it succeeds it has written entries 0..L-2 of the
\* store; a second flush right after it writes the same samples; and a process
\* call after it gives what it would have given before it.
C19_FlushChangesNothing ==
    [][(status = "live" /\ Len(trace') = Len(trace) + 1 /\ IsFlush(Last'))
       => /\ <<impulse_response', mode', buffer', ir_blocks', overlap_buffer', block_size'>>
               = <<impulse_response, mode, buffer, ir_blocks, overlap_buffer, block_size>>
          /\ Last'.ok
               => /\ Last'.written = Len(impulse_response) - 1
                  /\ \A i \in 1..(Len(impulse_response) - 1) : Last'.out[i] = buffer[i]
          /\ (IsFlush(Last) /\ Last.ok /\ Last'.outlen = Last.outlen)
               => /\ Last'.ok
                  /\ Last'.out = Last.out
          /\ \A x \in LinInputs :
                LET before == process(Self, x, Len(x))
                    after == process(Self', x, Len(x))
                IN  /\ after.ok = before.ok
                    /\ after.out = before.out]_vars

\* two successful flushes in a row, each writing at least one sample
C19_Witness ==
    /\ Len(trace) >= 3
    /\ IsFlush(Last)
    /\ Last.ok
    /\ Last.written >= 1
    /\ IsFlush(trace[Len(trace) - 1])
    /\ trace[Len(trace) - 1].ok
    /\ trace[Len(trace) - 1].outlen = Last.outlen

\* C20: in frequency-domain mode process never writes the Carryover Store.
\* After construction and any process calls the store is all zeros, so a
\* successful flush writes zeros only, whatever input was processed.
C20_FrequencyDomainStoreStaysZero ==
    (FrequencyDomainRequested /\ Requested.ok) =>
        /\ \A i \in 1..Len(buffer) : buffer[i] = 0
        /\ \A c \in 2..Len(trace) :
              (IsFlush(trace[c]) /\ trace[c].ok)
                 => \A i \in 1..Len(trace[c].out) : trace[c].out[i] = 0

\* the last tap and the last sample processed are non-zero, so the convolution
\* has a non-zero tail, and the flush after the process call succeeded
C20_Witness ==
    /\ FrequencyDomainRequested
    /\ Len(trace) = 3
    /\ Len(Requested.input) >= 2
    /\ Requested.input[Len(Requested.input)] # 0
    /\ IsProcess(trace[2])
    /\ trace[2].ok
    /\ trace[2].written >= 1
    /\ trace[2].input[Len(trace[2].input)] # 0
    /\ IsFlush(trace[3])
    /\ trace[3].ok
    /\ trace[3].written >= 1

\* ---- RingBuffer: a full buffer looks empty ----
\* C21: len() is always in 0..capacity-1 and push never fails: it writes its
\* value at the write index whatever the buffer holds.  After exactly capacity
\* pushes and no pop on a fresh buffer the write index is back on the read
\* index and len() is 0, as on an empty buffer, and the next push overwrites
\* the oldest value, which was never read.
C21_FullLooksEmpty ==
    rb_status # "none" =>
        LET C == capacity(RbSelf)
            n == Len(rb_pushed.values)
        IN  /\ rb_status = "live"
            /\ len(RbSelf) \in 0..(C - 1)
            /\ rb_call.op = "push"
                 => rb_buffer[((head + C - 1) % C) + 1] = rb_call.arg
            /\ (rb_pushed.only /\ n = C)
                 => /\ head = tail
                    /\ len(RbSelf) = 0
                    /\ rb_buffer = rb_pushed.values
            /\ (rb_pushed.only /\ n = C + 1)
                 => /\ peek(RbSelf) = rb_pushed.values[C + 1]
                    /\ \A i \in 2..C : rb_buffer[i] = rb_pushed.values[i]
                    /\ len(RbSelf) = 1 % C

\* one push more than the capacity, the last value differing from the first,
\* on a buffer of two or more cells
C21_Witness ==
    /\ rb_status = "live"
    /\ capacity(RbSelf) >= 2
    /\ rb_pushed.only
    /\ Len(rb_pushed.values) = capacity(RbSelf) + 1
    /\ rb_pushed.values[capacity(RbSelf) + 1] # rb_pushed.values[1]

=============================================================================
